---- MODULE Spec2Model ----
(***************************************************************************)
(* Walk-forward testing of a trade log (src/app.py, class App).            *)
(*                                                                         *)
(* A datetime is a record [year, month, day, sec, us]: sec is the second   *)
(* of the day and us the microseconds.  A float is modelled by the exact   *)
(* rational it stands for, a pair <<n, d>> in lowest terms with d > 0.     *)
(* Where polars leaves the order of equal keys open (group_by without      *)
(* maintain_order, sort without maintain_order) the model takes every      *)
(* order.                                                                  *)
(***************************************************************************)
EXTENDS Integers, Sequences, FiniteSets, TLC

VARIABLES df, pc, errors, shown, min_datetime, max_datetime,
          lookback_start, lookback_months, lookback_end, sort_by, agg_by,
          top_agg_n, top_n, lookback_data, x, anchored, unanchored, unanchored_start,
          forward_end, cycles

vars == <<df, pc, errors, shown, min_datetime, max_datetime,
          lookback_start, lookback_months, lookback_end, sort_by, agg_by,
          top_agg_n, top_n, lookback_data, x, anchored, unanchored, unanchored_start,
          forward_end, cycles>>

\* ------------------------------------------------------------ bounds
\* Largest number of rows of the loaded table.
MaxTrades == 4
\* Largest value entered in the two "number of top time slots" inputs.
MaxTop == 2

\* ------------------------------------------------------------ helpers
Min(a, b) == IF a <= b THEN a ELSE b

Abs(a) == IF a < 0 THEN -a ELSE a

RECURSIVE Gcd(_, _)
Gcd(a, b) == IF b = 0 THEN a ELSE Gcd(b, a % b)

\* The rational n/d (d # 0) in lowest terms with a positive denominator.
Rat(n, d) ==
    LET g == Gcd(Abs(n), Abs(d))
        s == IF d < 0 THEN -1 ELSE 1
    IN  <<(s * n) \div g, (s * d) \div g>>

RatAdd(p, q) == Rat(p[1] * q[2] + q[1] * p[2], p[2] * q[2])

RatLess(p, q) == p[1] * q[2] < q[1] * p[2]

RECURSIVE RatSum(_)
RatSum(s) == IF s = <<>> THEN <<0, 1>> ELSE RatAdd(Head(s), RatSum(Tail(s)))

\* polars Expr.mean() over a non-empty column.
RatMean(s) == LET t == RatSum(s) IN Rat(t[1], t[2] * Len(s))

RECURSIVE IntSum(_)
IntSum(s) == IF s = <<>> THEN 0 ELSE Head(s) + IntSum(Tail(s))

\* A set as a sequence, in some order.
RECURSIVE SetToSeq(_)
SetToSeq(S) ==
    IF S = {} THEN <<>>
    ELSE LET e == CHOOSE e \in S : TRUE IN <<e>> \o SetToSeq(S \ {e})

\* ------------------------------------------------------------ calendar
IsLeap(y) == (y % 4 = 0) /\ ((y % 100 # 0) \/ (y % 400 = 0))

DaysInMonth(y, m) ==
    IF m = 2 THEN (IF IsLeap(y) THEN 29 ELSE 28)
    ELSE IF m \in {4, 6, 9, 11} THEN 30 ELSE 31

DaysBeforeYear(y) ==
    (y - 1) * 365 + ((y - 1) \div 4) - ((y - 1) \div 100) + ((y - 1) \div 400)

RECURSIVE DaysBeforeMonth(_, _)
DaysBeforeMonth(y, m) ==
    IF m = 1 THEN 0 ELSE DaysBeforeMonth(y, m - 1) + DaysInMonth(y, m - 1)

\* date.toordinal()
Ordinal(y, m, d) == DaysBeforeYear(y) + DaysBeforeMonth(y, m) + d

\* Comparison of datetimes.
DtLess(a, b) ==
    LET oa == Ordinal(a.year, a.month, a.day)
        ob == Ordinal(b.year, b.month, b.day)
    IN  \/ oa < ob
        \/ oa = ob /\ a.sec < b.sec
        \/ oa = ob /\ a.sec = b.sec /\ a.us < b.us

DtLeq(a, b) == a = b \/ DtLess(a, b)

\* dt + relativedelta(months=k): the month moves by k, the day is cut to
\* the length of the month it lands in, the time of day is kept.
AddMonths(dt, k) ==
    LET mi == dt.year * 12 + (dt.month - 1) + k
        y  == mi \div 12
        m  == (mi % 12) + 1
    IN  [dt EXCEPT !.year = y, !.month = m,
                   !.day = Min(dt.day, DaysInMonth(y, m))]

\* datetime.combine(d, datetime.min.time()) and (d, datetime.max.time())
CombineMin(d) == [year |-> d.year, month |-> d.month, day |-> d.day,
                  sec |-> 0, us |-> 0]

CombineMax(d) == [year |-> d.year, month |-> d.month, day |-> d.day,
                  sec |-> 86399, us |-> 999999]

\* (a - b).days for a >= b with b at midnight
DaysBetween(a, b) ==
    Ordinal(a.year, a.month, a.day) - Ordinal(b.year, b.month, b.day)

\* ISO week number, Expr.dt.week()
IsoWeek1Monday(y) ==
    LET firstday == Ordinal(y, 1, 1)
        firstweekday == (firstday + 6) % 7
        monday == firstday - firstweekday
    IN  IF firstweekday > 3 THEN monday + 7 ELSE monday

IsoWeek(dt) ==
    LET today == Ordinal(dt.year, dt.month, dt.day)
        w == (today - IsoWeek1Monday(dt.year)) \div 7
    IN  IF today < IsoWeek1Monday(dt.year)
        THEN ((today - IsoWeek1Monday(dt.year - 1)) \div 7) + 1
        ELSE IF w >= 52 /\ today >= IsoWeek1Monday(dt.year + 1) THEN 1
        ELSE w + 1

\* str.strptime(pl.Datetime, "%m/%d/%Y %I:%M:%S %p") of the text
\* "MM/DD/YYYY hh:mm:ss AP", held as <<MM, DD, YYYY, hh, mm, ss, AP>>.
Strptime(s) ==
    [year |-> s[3], month |-> s[1], day |-> s[2],
     sec |-> ((s[4] % 12) + (IF s[7] = "PM" THEN 12 ELSE 0)) * 3600
             + s[5] * 60 + s[6],
     us |-> 0]

\* dt.to_string("%I:%M %p"): the twelve-hour label <<hh, mm, AP>>.
TimeLabel(dt) ==
    LET h == dt.sec \div 3600
    IN  <<IF h % 12 = 0 THEN 12 ELSE h % 12,
          (dt.sec % 3600) \div 60,
          IF h < 12 THEN "AM" ELSE "PM">>

\* ------------------------------------------------------------ input
\* The columns _validate_data requires.
RequiredColumns ==
    {"EntryTime", "Premium", "ProfitLossAfterSlippage", "CommissionFees"}

\* Rows a CSV file may hold: the text of EntryTime, the three numbers the
\* program reads and one column it does not read.  Premium is positive.
RowPool ==
    << [EntryTime |-> <<11, 30, 2022, 9, 30, 0, "AM">>, Premium |-> 2,
        ProfitLossAfterSlippage |-> 1, CommissionFees |-> 0, Strategy |-> "s"],
       [EntryTime |-> <<12, 1, 2022, 9, 30, 30, "AM">>, Premium |-> 1,
        ProfitLossAfterSlippage |-> 3, CommissionFees |-> 0, Strategy |-> "s"],
       [EntryTime |-> <<12, 15, 2022, 1, 15, 0, "PM">>, Premium |-> 4,
        ProfitLossAfterSlippage |-> 2, CommissionFees |-> 0, Strategy |-> "s"],
       [EntryTime |-> <<12, 29, 2022, 9, 30, 0, "AM">>, Premium |-> 1,
        ProfitLossAfterSlippage |-> 1, CommissionFees |-> 0, Strategy |-> "s"],
       [EntryTime |-> <<1, 30, 2023, 9, 30, 0, "AM">>, Premium |-> 2,
        ProfitLossAfterSlippage |-> 1, CommissionFees |-> 1, Strategy |-> "s"],
       [EntryTime |-> <<1, 31, 2023, 12, 0, 0, "AM">>, Premium |-> 1,
        ProfitLossAfterSlippage |-> 2, CommissionFees |-> 0, Strategy |-> "s"],
       [EntryTime |-> <<3, 1, 2023, 1, 15, 0, "PM">>, Premium |-> 2,
        ProfitLossAfterSlippage |-> 5, CommissionFees |-> 0, Strategy |-> "s"] >>

\* Column sets a CSV file may have.
ColumnChoices ==
    {RequiredColumns, RequiredColumns \cup {"Strategy"}}
    \cup {RequiredColumns \ {c} : c \in RequiredColumns}
    \cup {{"ProfitLossAfterSlippage", "CommissionFees", "Strategy"}}

\* Dates the user may pick as the start of the lookback period, besides
\* the widget's default.
StartDates ==
    {[year |-> 2022, month |-> 12, day |-> 1],
     [year |-> 2022, month |-> 12, day |-> 31],
     [year |-> 2023, month |-> 1, day |-> 1]}

RECURSIVE SortedIndices(_)
SortedIndices(I) ==
    IF I = {} THEN <<>>
    ELSE LET m == CHOOSE m \in I : \A j \in I : m <= j
         IN  <<m>> \o SortedIndices(I \ {m})

\* pl.read_csv: the table with the given columns and the pool's rows I.
ReadCsv(cols, I) ==
    LET idx == SortedIndices(I)
    IN  [columns |-> cols,
         rows |-> [i \in 1..Len(idx) |-> [c \in cols |-> RowPool[idx[i]][c]]]]

DateOf(dt) == [year |-> dt.year, month |-> dt.month, day |-> dt.day]

DateLeq(a, b) == Ordinal(a.year, a.month, a.day) <= Ordinal(b.year, b.month, b.day)

\* ------------------------------------------------------------ _validate_data
\* MissingCols with the difference taken the wrong way round
MissingColsReversed(frame) == frame.columns \ RequiredColumns

MissingCols(frame) == RequiredColumns \ frame.columns

ValidateData(frame) == MissingCols(frame) = {}

\* ------------------------------------------------------------ _preprocess_data
RowPnL(r) == r.ProfitLossAfterSlippage * 100 - r.CommissionFees

DerivedColumns == {"PnL", "PCR", "Year", "Month", "Week", "Time"}

PreprocessRow(r, cols) ==
    LET t == Strptime(r.EntryTime)
    IN  [c \in cols \cup DerivedColumns |->
            CASE c = "EntryTime" -> t
              [] c = "PnL"  -> RowPnL(r)
              [] c = "PCR"  -> Rat(RowPnL(r), r.Premium)
              [] c = "Year" -> t.year
              [] c = "Month" -> t.month
              [] c = "Week" -> IsoWeek(t)
              [] c = "Time" -> TimeLabel(t)
              [] OTHER -> r[c]]

PreprocessData(frame) ==
    [columns |-> frame.columns \cup DerivedColumns,
     rows |-> [i \in 1..Len(frame.rows) |->
                  PreprocessRow(frame.rows[i], frame.columns)]]

\* pl.col("EntryTime").min() and .max() of a table with at least one row
MinEntryTime(rows) ==
    LET i == CHOOSE i \in 1..Len(rows) :
                 \A j \in 1..Len(rows) : DtLeq(rows[i].EntryTime, rows[j].EntryTime)
    IN  rows[i].EntryTime

MaxEntryTime(rows) ==
    LET i == CHOOSE i \in 1..Len(rows) :
                 \A j \in 1..Len(rows) : DtLeq(rows[j].EntryTime, rows[i].EntryTime)
    IN  rows[i].EntryTime

\* ------------------------------------------------------------ _get_lookback_data
\* The value of the rank metric `by` ("PnL" or "PCR") in a row of an
\* aggregated table.
Metric(row, by) == row[by]

\* The period column chosen by agg_by.
PeriodOf(r) == IF agg_by = "Month" THEN r.Month ELSE r.Week

\* filter(EntryTime >= start, EntryTime <= end)
FilterWindow(rows, start, end) ==
    SelectSeq(rows, LAMBDA r : DtLeq(start, r.EntryTime) /\ DtLeq(r.EntryTime, end))

\* group_by("Year", agg_by, "Time").agg(PnL.mean(), PCR.mean()): one row
\* for each key; the rows come in no particular order.
GroupByPeriodTime(rows) ==
    LET keys == {<<rows[i].Year, PeriodOf(rows[i]), rows[i].Time>> : i \in 1..Len(rows)}
        of(k) == SelectSeq(rows, LAMBDA r : <<r.Year, PeriodOf(r), r.Time>> = k)
    IN  { [Year |-> k[1], Period |-> k[2], Time |-> k[3],
           PnL |-> RatMean([i \in 1..Len(of(k)) |-> Rat(of(k)[i].PnL, 1)]),
           PCR |-> RatMean([i \in 1..Len(of(k)) |-> of(k)[i].PCR])] : k \in keys }

\* SortDescending with the order reversed
RECURSIVE SortAscending(_, _)
SortAscending(S, by) ==
    IF S = {} THEN {<<>>}
    ELSE UNION { { <<m>> \o t : t \in SortAscending(S \ {m}, by) } :
                 m \in {r \in S : \A o \in S : ~RatLess(Metric(o, by), Metric(r, by))} }

\* sort(by, descending=True) of rows that come in no particular order:
\* every order with the metric non-increasing.
RECURSIVE SortDescending(_, _)
SortDescending(S, by) ==
    IF S = {} THEN {<<>>}
    ELSE UNION { { <<m>> \o t : t \in SortDescending(S \ {m}, by) } :
                 m \in {r \in S : \A o \in S : ~RatLess(Metric(r, by), Metric(o, by))} }

\* group_by("Year", agg_by).agg(col.limit(top_agg_n)).explode(...): of
\* each period the first top_agg_n rows, in the order of the sorted table.
LimitPerPeriod(sorted, n) ==
    LET keys == {<<sorted[i].Year, sorted[i].Period>> : i \in 1..Len(sorted)}
        of(k) == SelectSeq(sorted, LAMBDA r : <<r.Year, r.Period>> = k)
    IN  UNION { {of(k)[i] : i \in 1..Min(n, Len(of(k)))} : k \in keys }

\* GroupByTime with the means taken again over the trades of the kept
\* periods instead of over the period means
GroupByTimeRaw(kept) ==
    LET of(t) == SelectSeq(df.rows, LAMBDA r : r.Time = t /\
                     \E k \in kept : k.Time = t /\ k.Year = r.Year /\ k.Period = PeriodOf(r))
    IN  { [Time |-> t,
           PnL |-> RatMean([i \in 1..Len(of(t)) |-> Rat(of(t)[i].PnL, 1)]),
           PCR |-> RatMean([i \in 1..Len(of(t)) |-> of(t)[i].PCR])] :
          t \in {r.Time : r \in kept} }

\* group_by("Time").agg(PnL.mean(), PCR.mean()) of the exploded table.
GroupByTime(kept) ==
    LET of(t) == SetToSeq({r \in kept : r.Time = t})
    IN  { [Time |-> t,
           PnL |-> RatMean([i \in 1..Len(of(t)) |-> of(t)[i].PnL]),
           PCR |-> RatMean([i \in 1..Len(of(t)) |-> of(t)[i].PCR])] :
          t \in {r.Time : r \in kept} }

\* .limit(n)
Limit(s, n) == SubSeq(s, 1, Min(n, Len(s)))

\* The tables _get_lookback_data(start, end) may return, each with the
\* exploded per-period table it was pooled from.
GetLookbackData(start, end) ==
    LET periodMeans == GroupByPeriodTime(FilterWindow(df.rows, start, end))
    IN  UNION { LET kept == LimitPerPeriod(s1, top_agg_n)
                IN  { [start |-> start, end |-> end, kept |-> kept,
                       data |-> Limit(s2, top_n)] :
                      s2 \in SortDescending(GroupByTime(kept), sort_by) } :
                s1 \in SortDescending(periodMeans, sort_by) }

\* ------------------------------------------------------------ _calc_forward_pnl
TopTimes(table) == {table[i].Time : i \in 1..Len(table)}

\* ForwardFilter without the is_in condition
ForwardFilterAnySlot(r, top_times, start, end) ==
    /\ DtLess(start, r.EntryTime)
    /\ DtLeq(r.EntryTime, end)

ForwardFilter(r, top_times, start, end) ==
    /\ DtLess(start, r.EntryTime)
    /\ DtLeq(r.EntryTime, end)
    /\ r.Time \in top_times

CalcForwardPnl(table, start, end) ==
    LET sel == SelectSeq(df.rows,
                   LAMBDA r : ForwardFilter(r, TopTimes(table), start, end))
    IN  IntSum([i \in 1..Len(sel) |-> sel[i].PnL])

\* ------------------------------------------------------------ state
\* An attribute or local that has not been assigned yet.
Unset == [unset |-> TRUE]

Init ==
    /\ \E cols \in ColumnChoices :
       \E I \in SUBSET (1..Len(RowPool)) :
          /\ 1 <= Cardinality(I) /\ Cardinality(I) <= MaxTrades
          /\ df = ReadCsv(cols, I)
    /\ pc = "validate"
    /\ errors = <<>>
    /\ shown = <<>>
    /\ min_datetime = Unset /\ max_datetime = Unset
    /\ lookback_start = Unset /\ lookback_months = 0 /\ lookback_end = Unset
    /\ sort_by = "" /\ agg_by = ""
    /\ top_agg_n = 0 /\ top_n = 0
    /\ lookback_data = Unset
    /\ x = <<>> /\ anchored = <<>> /\ unanchored = <<>>
    /\ unanchored_start = Unset /\ forward_end = Unset
    /\ cycles = <<>>

\* run, lines 13-14, with _validate_data: an error naming the missing
\* columns and a return, or on to preprocessing.
Validate ==
    /\ pc = "validate"
    /\ IF ValidateData(df)
       THEN /\ pc' = "preprocess"
            /\ errors' = errors
       ELSE /\ errors' = Append(errors, [missing |-> MissingCols(df)])
            /\ pc' = "returned"
    /\ UNCHANGED <<df, shown, min_datetime, max_datetime, lookback_start, lookback_months,
                   lookback_end, sort_by, agg_by, top_agg_n, top_n,
                   lookback_data, x, anchored, unanchored, unanchored_start,
                   forward_end, cycles>>

\* run, line 15
Preprocess ==
    /\ pc = "preprocess"
    /\ df' = PreprocessData(df)
    /\ pc' = "lookback_parameters"
    /\ UNCHANGED <<errors, shown, min_datetime, max_datetime, lookback_start, lookback_months,
                   lookback_end, sort_by, agg_by, top_agg_n, top_n,
                   lookback_data, x, anchored, unanchored, unanchored_start,
                   forward_end, cycles>>

\* The largest value the "Number of months" input accepts.
MaxLookbackMonths(maxdt, start) == (DaysBetween(maxdt, start) \div 30) - 1

\* lookback_end of lines 74-75
LookbackEnd(start, months) == CombineMax(DateOf(AddMonths(start, months)))

\* run, line 16.  A streamlit input whose default lies outside its
\* min_value..max_value raises, which ends the run.
GetLookbackParameters ==
    /\ pc = "lookback_parameters"
    /\ LET mn == MinEntryTime(df.rows)
           mx == MaxEntryTime(df.rows)
           lastStart == DateOf(AddMonths(mx, -2))
       IN  /\ min_datetime' = mn
           /\ max_datetime' = mx
           /\ \/ /\ ~DateLeq(DateOf(mn), lastStart)
                 /\ pc' = "exception"
                 /\ UNCHANGED <<lookback_start, lookback_months, lookback_end>>
              \/ \E d \in StartDates \cup {DateOf(mn)} :
                    /\ DateLeq(DateOf(mn), d) /\ DateLeq(d, lastStart)
                    /\ MaxLookbackMonths(mx, CombineMin(d)) < 1
                    /\ pc' = "exception"
                    /\ UNCHANGED <<lookback_start, lookback_months, lookback_end>>
              \/ \E d \in StartDates \cup {DateOf(mn)} :
                    /\ DateLeq(DateOf(mn), d) /\ DateLeq(d, lastStart)
                    /\ \E months \in 1..MaxLookbackMonths(mx, CombineMin(d)) :
                          /\ lookback_start' = CombineMin(d)
                          /\ lookback_months' = months
                          /\ lookback_end' = LookbackEnd(CombineMin(d), months)
                    /\ pc' = "calc_parameters"
    /\ UNCHANGED <<df, errors, shown, sort_by, agg_by, top_agg_n, top_n,
                   lookback_data, x, anchored, unanchored, unanchored_start,
                   forward_end, cycles>>

\* run, line 17
GetCalcParameters ==
    /\ pc = "calc_parameters"
    /\ sort_by' \in {"PnL", "PCR"}
    /\ agg_by' \in {"Month", "Week"}
    /\ top_agg_n' \in 1..MaxTop
    /\ top_n' \in 1..MaxTop
    /\ pc' = "calc_forward"
    /\ UNCHANGED <<df, errors, shown, min_datetime, max_datetime,
                   lookback_start, lookback_months, lookback_end, lookback_data, x, anchored,
                   unanchored, unanchored_start, forward_end, cycles>>

\* forward_start of line 102
ForwardStart(fe) == AddMonths(fe, -1)

\* the step of lines 99 and 116, and of line 115
NextMonth(dt) == AddMonths(dt, 1)

\* LoopCondition on the start of the forward window instead of its end
LoopConditionOnStart(fe) == DtLeq(AddMonths(fe, -1), max_datetime)

\* the loop condition of line 100
LoopCondition(fe) == DtLeq(fe, max_datetime)

\* Accumulate without the previous total
AccumulateNoCarry(series, pnl) == pnl

\* lines 108 and 113: the running total with this cycle's pnl added
Accumulate(series, pnl) ==
    IF series # <<>> THEN pnl + series[Len(series)] ELSE pnl

\* SelectionEnd reaching to the end of the forward window
SelectionEndLookahead(fs, fe) == fe

\* lines 106 and 111: the end of the window the slots are selected on
SelectionEnd(fs, fe) == fs

\* _calc_forward, lines 91-99: the lookback table is shown and the loop's
\* variables are set.
CalcForwardBegin ==
    /\ pc = "calc_forward"
    /\ \E r \in GetLookbackData(lookback_start, lookback_end) :
          /\ lookback_data' = r
          /\ shown' = Append(shown, [what |-> "dataframe", data |-> r.data])
    /\ x' = <<>> /\ anchored' = <<>> /\ unanchored' = <<>>
    /\ unanchored_start' = lookback_start
    /\ forward_end' = NextMonth(lookback_end)
    /\ pc' = "loop"
    /\ UNCHANGED <<df, errors, min_datetime, max_datetime, lookback_start, lookback_months,
                   lookback_end, sort_by, agg_by, top_agg_n, top_n, cycles>>

\* _calc_forward, lines 100-116: one pass of the loop.  cycles keeps what
\* the pass computed.
LoopIteration ==
    /\ pc = "loop"
    /\ LoopCondition(forward_end)
    /\ LET forward_start == ForwardStart(forward_end)
       IN  \E a \in GetLookbackData(lookback_start, SelectionEnd(forward_start, forward_end)) :
           \E u \in GetLookbackData(unanchored_start, SelectionEnd(forward_start, forward_end)) :
              LET apnl == CalcForwardPnl(a.data, forward_start, forward_end)
                  upnl == CalcForwardPnl(u.data, forward_start, forward_end)
              IN  /\ x' = Append(x, forward_start)
                  /\ anchored' = Append(anchored, Accumulate(anchored, apnl))
                  /\ unanchored' = Append(unanchored, Accumulate(unanchored, upnl))
                  /\ lookback_data' = u
                  /\ cycles' = Append(cycles,
                        [forward_start |-> forward_start,
                         forward_end |-> forward_end,
                         anchored |-> a, anchored_pnl |-> apnl,
                         unanchored |-> u, unanchored_pnl |-> upnl])
    /\ unanchored_start' = NextMonth(unanchored_start)
    /\ forward_end' = NextMonth(forward_end)
    /\ UNCHANGED <<df, pc, errors, shown, min_datetime, max_datetime,
                   lookback_start, lookback_months, lookback_end, sort_by, agg_by, top_agg_n,
                   top_n>>

\* _calc_forward, line 100 false and lines 119-128: the two series are
\* plotted against x.
LoopExit ==
    /\ pc = "loop"
    /\ ~LoopCondition(forward_end)
    /\ shown' = Append(shown, [what |-> "pyplot", x |-> x,
                               anchored |-> anchored, unanchored |-> unanchored])
    /\ pc' = "done"
    /\ UNCHANGED <<df, errors, min_datetime, max_datetime, lookback_start, lookback_months,
                   lookback_end, sort_by, agg_by, top_agg_n, top_n,
                   lookback_data, x, anchored, unanchored, unanchored_start,
                   forward_end, cycles>>

Next ==
    \/ Validate
    \/ Preprocess
    \/ GetLookbackParameters
    \/ GetCalcParameters
    \/ CalcForwardBegin
    \/ LoopIteration
    \/ LoopExit

Spec == Init /\ [][Next]_vars

\* ------------------------------------------------------------ properties
\* The passes of the loop made so far.
CycleIds == 1..Len(cycles)

\* The sum of the PnL of the rows of df with index in J.
RECURSIVE PnLOver(_)
PnLOver(J) ==
    IF J = {} THEN 0
    ELSE LET i == CHOOSE i \in J : TRUE IN df.rows[i].PnL + PnLOver(J \ {i})

\* The rows of df inside the forward window (fs, fe].
InForward(fs, fe) ==
    {i \in 1..Len(df.rows) :
        DtLess(fs, df.rows[i].EntryTime) /\ DtLeq(df.rows[i].EntryTime, fe)}

\* The rows of df inside the lookback window [start, end].
InLookback(start, end) ==
    {i \in 1..Len(df.rows) :
        DtLeq(start, df.rows[i].EntryTime) /\ DtLeq(df.rows[i].EntryTime, end)}

\* The rows of df that count in a forward window for a selected table.
Matching(table, fs, fe) ==
    {i \in InForward(fs, fe) : \E j \in 1..Len(table) : table[j].Time = df.rows[i].Time}

\* C1: in every pass of the loop and for both selections, the forward PnL
\* is the sum of PnL over exactly the rows with forward_start < EntryTime
\* <= forward_end whose Time label is in the selected table; with no such
\* row it is 0.
C1_ForwardPnl ==
    \A c \in CycleIds :
        LET ma == Matching(cycles[c].anchored.data, cycles[c].forward_start,
                           cycles[c].forward_end)
            mu == Matching(cycles[c].unanchored.data, cycles[c].forward_start,
                           cycles[c].forward_end)
        IN  /\ cycles[c].anchored_pnl = PnLOver(ma)
            /\ cycles[c].unanchored_pnl = PnLOver(mu)
            /\ (ma = {}) => cycles[c].anchored_pnl = 0
            /\ (mu = {}) => cycles[c].unanchored_pnl = 0

\* A pass in which a row at a selected slot counts, a row inside the
\* forward window at a slot that was not selected does not, and rows at
\* the selected slot before and after the window do not.
C1_Witness ==
    \E c \in CycleIds :
        LET fs == cycles[c].forward_start
            fe == cycles[c].forward_end
            ma == Matching(cycles[c].anchored.data, fs, fe)
            rows == 1..Len(df.rows)
        IN  /\ ma # {}
            /\ cycles[c].anchored_pnl # 0
            /\ InForward(fs, fe) \ ma # {}
            /\ \E i \in ma : \E j \in rows \ InForward(fs, fe) :
                  /\ df.rows[j].Time = df.rows[i].Time
                  /\ DtLess(df.rows[j].EntryTime, fs)
            /\ \E j \in rows : DtLess(fe, df.rows[j].EntryTime)

\* The forward PnL of pass i in a mode.
PnlOf(mode, i) ==
    IF mode = "anchored" THEN cycles[i].anchored_pnl ELSE cycles[i].unanchored_pnl

\* The running total after pass i is the total after pass i-1 plus the
\* forward PnL of pass i; after the first pass it is that pass's PnL.
SeriesOf(series, mode) ==
    /\ Len(series) = Len(cycles)
    /\ \A i \in CycleIds :
          series[i] = IF i = 1 THEN PnlOf(mode, 1)
                      ELSE series[i - 1] + PnlOf(mode, i)

\* No entry of a series is changed or removed by a step.
PrefixKept(series, seriesNext) ==
    /\ Len(seriesNext) >= Len(series)
    /\ \A i \in 1..Len(series) : seriesNext[i] = series[i]

\* C2: after every pass both running series satisfy series[1] = pnl of
\* pass 1 and series[i] = series[i-1] + pnl of pass i, and a later pass
\* never changes an earlier entry.
C2_RunningSeries ==
    /\ [](SeriesOf(anchored, "anchored") /\ SeriesOf(unanchored, "unanchored"))
    /\ [][PrefixKept(anchored, anchored') /\ PrefixKept(unanchored, unanchored')]_vars

\* Two passes done with a non-zero PnL in the second, so that the second
\* entry of the anchored series differs from both the first entry and the
\* second pass's own PnL.
C2_Witness ==
    /\ Len(cycles) >= 2
    /\ cycles[1].anchored_pnl # 0
    /\ cycles[2].anchored_pnl # 0
    /\ anchored[2] = cycles[1].anchored_pnl + cycles[2].anchored_pnl
    /\ unanchored[2] = cycles[1].unanchored_pnl + cycles[2].unanchored_pnl

\* dt moved forward one month at a time, k times.
RECURSIVE Advanced(_, _)
Advanced(dt, k) == IF k = 0 THEN dt ELSE AddMonths(Advanced(dt, k - 1), 1)

\* Calendar months from a to b, never less than 0.
MonthsFromTo(a, b) ==
    LET n == (b.year * 12 + b.month) - (a.year * 12 + a.month)
    IN  IF n < 0 THEN 0 ELSE n

\* C3: the loop ends, and pass k is made exactly when the end of its
\* forward window, lookback_end moved forward by one month k times, is at
\* most max_datetime: every pass made has its forward end within the
\* data, the number of passes is at most the months between lookback_end
\* and max_datetime, a pass that is due can be made (the selection yields
\* a table), and once the loop has ended the next forward end and the one
\* after are past max_datetime.
C3_LoopBound ==
    pc \in {"loop", "done"} =>
        /\ Len(x) = Len(cycles)
        /\ forward_end = Advanced(lookback_end, Len(cycles) + 1)
        /\ \A k \in CycleIds :
              /\ cycles[k].forward_end = Advanced(lookback_end, k)
              /\ DtLeq(cycles[k].forward_end, max_datetime)
        /\ Len(cycles) <= MonthsFromTo(lookback_end, max_datetime)
        /\ (pc = "loop" /\ LoopCondition(forward_end)) =>
              /\ GetLookbackData(lookback_start, ForwardStart(forward_end)) # {}
              /\ GetLookbackData(unanchored_start, ForwardStart(forward_end)) # {}
        /\ pc = "done" =>
              \A k \in 1..(Len(cycles) + 2) :
                  (k <= Len(cycles)) <=> DtLeq(Advanced(lookback_end, k), max_datetime)

\* The loop has ended after two passes, with data left after the last
\* forward end that is less than one more month.
C3_Witness ==
    /\ pc = "done"
    /\ Len(cycles) = 2
    /\ DtLess(cycles[2].forward_end, max_datetime)
    /\ DtLess(max_datetime, forward_end)

\* C4: in Anchored mode the lookback start is lookback_start in every
\* pass; the first forward start is lookback_end and every later forward
\* start is the previous forward end, so the forward windows of distinct
\* passes are disjoint, no row is summed in two passes, and each forward
\* segment lies inside the next pass's lookback window.
C4_AnchoredTiling ==
    \A c \in CycleIds :
        /\ cycles[c].anchored.start = lookback_start
        /\ (c = 1) => cycles[c].forward_start = lookback_end
        /\ (c > 1) => cycles[c].forward_start = cycles[c - 1].forward_end
        /\ \A d \in CycleIds :
              (c < d) =>
                 /\ DtLeq(cycles[c].forward_end, cycles[d].forward_start)
                 /\ InForward(cycles[c].forward_start, cycles[c].forward_end)
                    \cap InForward(cycles[d].forward_start, cycles[d].forward_end) = {}
        /\ (c < Len(cycles)) =>
              /\ DtLeq(cycles[c + 1].anchored.start, cycles[c].forward_start)
              /\ DtLeq(cycles[c].forward_end, cycles[c + 1].anchored.end)

\* C5: in Unanchored mode the lookback window of pass i (counted from 0)
\* is [lookback_start + i months, lookback_end + i months], its width is
\* lookback_months, and it ends where the forward window of the pass
\* begins, as the Anchored one does.
C5_UnanchoredWindow ==
    \A c \in CycleIds :
        LET u == cycles[c].unanchored
        IN  /\ u.start = AddMonths(lookback_start, c - 1)
            /\ u.end = AddMonths(lookback_end, c - 1)
            /\ u.end = LookbackEnd(u.start, lookback_months)
            /\ u.end = cycles[c].forward_start
            /\ cycles[c].anchored.end = cycles[c].forward_start

\* The calls of _get_lookback_data whose results the state holds.
Calls ==
    (IF pc \in {"loop", "done"} THEN {lookback_data} ELSE {})
    \cup {cycles[c].anchored : c \in CycleIds}
    \cup {cycles[c].unanchored : c \in CycleIds}

\* The rows of the window W in period P at slot t.
Members(W, P, t) ==
    {i \in W : <<df.rows[i].Year, PeriodOf(df.rows[i])>> = P /\ df.rows[i].Time = t}

\* The mean of the metric over the rows J of df.
LocalMean(J, by) ==
    IF by = "PnL" THEN Rat(PnLOver(J), Cardinality(J))
    ELSE LET q == SetToSeq(J) IN RatMean([n \in 1..Len(q) |-> df.rows[q[n]].PCR])

\* The mean of the metric over a set of rows of an aggregated table.
MeanOfMeans(R, by) ==
    LET q == SetToSeq(R) IN RatMean([n \in 1..Len(q) |-> q[n][by]])

\* C6: in each (Year, period) group the kept slots are min(top_agg_n,
\* slots of the period) many, each once, each with its period-local means,
\* and no slot left out has a higher period-local rank metric than a kept
\* one; the value of a slot in the returned table is the mean of its
\* period-local means over the periods in which it was kept.
C6_TwoStage ==
    \A k \in Calls :
        LET W == InLookback(k.start, k.end)
            periods == {<<df.rows[i].Year, PeriodOf(df.rows[i])>> : i \in W}
        IN  /\ \A r \in k.kept :
                  LET J == Members(W, <<r.Year, r.Period>>, r.Time)
                  IN  /\ J # {}
                      /\ r.PnL = LocalMean(J, "PnL")
                      /\ r.PCR = LocalMean(J, "PCR")
            /\ \A P \in periods :
                  LET slots == {df.rows[i].Time : i \in {j \in W :
                                   <<df.rows[j].Year, PeriodOf(df.rows[j])>> = P}}
                      keptP == {r \in k.kept : <<r.Year, r.Period>> = P}
                      keptTimes == {r.Time : r \in keptP}
                  IN  /\ Cardinality(keptP) = Min(top_agg_n, Cardinality(slots))
                      /\ Cardinality(keptP) <= top_agg_n
                      /\ Cardinality(keptTimes) = Cardinality(keptP)
                      /\ \A r \in keptP : \A t \in slots \ keptTimes :
                            ~RatLess(r[sort_by], LocalMean(Members(W, P, t), sort_by))
            /\ \A j \in 1..Len(k.data) :
                  LET same == {r \in k.kept : r.Time = k.data[j].Time}
                  IN  /\ same # {}
                      /\ k.data[j].PnL = MeanOfMeans(same, "PnL")
                      /\ k.data[j].PCR = MeanOfMeans(same, "PCR")

\* A returned slot kept in two periods with period-local PnL means m1 and
\* m2 that differ: its value is (m1 + m2) / 2 and is not the mean over the
\* trades of the two periods taken together.
C6_Witness ==
    \E k \in Calls : \E j \in 1..Len(k.data) : \E r1, r2 \in k.kept :
        /\ r1 # r2
        /\ r1.Time = k.data[j].Time /\ r2.Time = k.data[j].Time
        /\ {r \in k.kept : r.Time = k.data[j].Time} = {r1, r2}
        /\ r1.PnL # r2.PnL
        /\ k.data[j].PnL = Rat(r1.PnL[1] * r2.PnL[2] + r2.PnL[1] * r1.PnL[2],
                               2 * r1.PnL[2] * r2.PnL[2])
        /\ k.data[j].PnL #
              LocalMean({i \in InLookback(k.start, k.end) :
                            df.rows[i].Time = k.data[j].Time}, "PnL")

\* C7: the returned table is non-increasing in the rank metric, holds each
\* Time slot at most once, has min(top_n, pooled slots) rows, and no
\* pooled slot left out has a higher rank metric than a slot in it.
C7_TopN ==
    \A k \in Calls :
        LET pooled == {r.Time : r \in k.kept}
            included == {k.data[j].Time : j \in 1..Len(k.data)}
            value(t) == MeanOfMeans({r \in k.kept : r.Time = t}, sort_by)
        IN  /\ \A j \in 1..(Len(k.data) - 1) :
                  ~RatLess(k.data[j][sort_by], k.data[j + 1][sort_by])
            /\ Cardinality(included) = Len(k.data)
            /\ Len(k.data) = Min(top_n, Cardinality(pooled))
            /\ included \subseteq pooled
            /\ \A t \in pooled \ included : \A j \in 1..Len(k.data) :
                  ~RatLess(k.data[j][sort_by], value(t))

\* A returned table of two rows with the first strictly above the second
\* and a third pooled slot left out.
C7_Witness ==
    \E k \in Calls :
        /\ Len(k.data) = 2
        /\ RatLess(k.data[2][sort_by], k.data[1][sort_by])
        /\ Cardinality({r.Time : r \in k.kept}) >= 3

\* What the state holds when nothing after validation has run.
NothingFurther ==
    /\ shown = <<>> /\ cycles = <<>>
    /\ min_datetime = Unset /\ max_datetime = Unset
    /\ lookback_start = Unset /\ lookback_end = Unset
    /\ sort_by = "" /\ agg_by = "" /\ top_agg_n = 0 /\ top_n = 0
    /\ x = <<>> /\ anchored = <<>> /\ unanchored = <<>>

\* C8: with a required column missing, run reports one error naming the
\* missing columns and does nothing further, and the table stays as
\* loaded; with none missing, extra columns or not, no error is reported
\* and the run goes on to preprocessing.
C8_Validation ==
    /\ [](/\ (RequiredColumns \ df.columns # {}) =>
                /\ pc \in {"validate", "returned"}
                /\ NothingFurther
                /\ (pc = "returned") =>
                      errors = <<[missing |-> RequiredColumns \ df.columns]>>
          /\ (RequiredColumns \ df.columns = {}) =>
                /\ errors = <<>>
                /\ pc # "returned")
    /\ [][(RequiredColumns \ df.columns # {}) => df' = df]_vars

\* The run has returned after reporting that EntryTime and Premium are
\* missing, for a table that also has a column the program does not read.
C8_Witness ==
    /\ pc = "returned"
    /\ errors = <<[missing |-> {"EntryTime", "Premium"}]>>
    /\ "Strategy" \in df.columns

\* C9: when lookback_end + 1 month is past max_datetime, an error is
\* reported and nothing is shown.
C9_ConfigurationError ==
    (/\ pc \in {"calc_parameters", "calc_forward", "loop", "done"}
     /\ DtLess(max_datetime, AddMonths(lookback_end, 1)))
    => /\ shown = <<>>
       /\ (pc = "done") => errors # <<>>

\* C10: in every pass and both modes the slots are selected on the window
\* that ends at forward_start, from rows of that window only; the rows of
\* that window are disjoint from the rows measured, every one of them is
\* earlier than every row measured, and a row at forward_start is not
\* measured.
C10_NoLookAhead ==
    \A c \in CycleIds :
        LET fs == cycles[c].forward_start
            M == InForward(fs, cycles[c].forward_end)
            ok(m) ==
                LET S == InLookback(m.start, m.end)
                IN  /\ m.end = fs
                    /\ S \cap M = {}
                    /\ \A i \in S : \A j \in M :
                          DtLess(df.rows[i].EntryTime, df.rows[j].EntryTime)
                    /\ \A r \in m.kept : \E i \in S :
                          /\ df.rows[i].Time = r.Time
                          /\ df.rows[i].Year = r.Year
                          /\ PeriodOf(df.rows[i]) = r.Period
        IN  /\ ok(cycles[c].anchored)
            /\ ok(cycles[c].unanchored)
            /\ \A i \in 1..Len(df.rows) : df.rows[i].EntryTime = fs => i \notin M

\* A pass in which both modes select on rows and a row at a selected slot
\* is measured.
C10_Witness ==
    \E c \in CycleIds :
        /\ InLookback(cycles[c].anchored.start, cycles[c].anchored.end) # {}
        /\ InLookback(cycles[c].unanchored.start, cycles[c].unanchored.end) # {}
        /\ Matching(cycles[c].unanchored.data, cycles[c].forward_start,
                    cycles[c].forward_end) # {}

====
